---------------------------- MODULE Spec2Model ----------------------------
(***************************************************************************)
(* Model of src/features/transformers.py: the two preprocessing            *)
(* transformers for PV power time series.                                  *)
(*                                                                         *)
(*   ClearskyScalar      divides / multiplies a (time x location) table by *)
(*                       the clear-sky GHI and masks night-time cells.     *)
(*   RobustMinMaxScaler  percentile clipping composed with sklearn's       *)
(*                       MinMaxScaler.                                     *)
(*                                                                         *)
(* Numbers are exact rationals <<num, den>> in lowest terms with den > 0;  *)
(* the three non-finite floating point values are <<0,0>> (NaN), <<1,0>>   *)
(* (+Inf) and <<-1,0>> (-Inf).  Rounding of IEEE doubles is not modelled.  *)
(***************************************************************************)
EXTENDS Integers, Sequences, FiniteSets

VARIABLES
    \* ---- ClearskyScalar object and its caller -------------------------
    lats,       \* self.lats : sequence of latitudes
    lons,       \* self.lons : sequence of longitudes
    g0,         \* self.g0   : the fudge factor
    clearsky,   \* the irradiance model: [time, location] -> unfudged GHI
    X,          \* the caller's table
    op,         \* name of the last ClearskyScalar method called
    arg,        \* the table as it was when passed to that call
    argMin,     \* min_ghi of that call (filter_to_daylight)
    argInplace, \* inplace of that call (filter_to_daylight)
    ret,        \* the table returned by that call (EmptyTable when none)
    outcome,    \* "none" | "table" | "None" | "AssertionError"
    ghiCalls,   \* TRUE iff that call reached haurwitz_ghi
    orig,       \* the table whose transform the caller fed back into X
    fed,        \* TRUE iff X currently holds a fed-back transform result
    \* ---- RobustMinMaxScaler object and its caller ---------------------
    feature_range,        \* self.feature_range = <<lo, hi>>
    saturation_fraction,  \* self.saturation_fraction
    robust_data_min,      \* self.robust_data_min (NaN until set)
    robust_data_max,      \* self.robust_data_max (NaN until set)
    fitted,               \* TRUE iff the sklearn attributes (scale_, ...) exist
    data_min_,            \* MinMaxScaler.data_min_
    data_max_,            \* MinMaxScaler.data_max_
    n_samples_seen_,      \* MinMaxScaler.n_samples_seen_
    scale_,               \* MinMaxScaler.scale_
    min_,                 \* MinMaxScaler.min_
    batches,              \* the batches passed to partial_fit since the last reset
    sop,                  \* name of the last RobustMinMaxScaler method called
    sarg,                 \* the column passed to that call
    sret,                 \* the column returned by that call (<<>> when none)
    soutcome,             \* "none" | "self" | "column" | "NotFittedError"
    \* ---- which of the two independent objects this run exercises ------
    focus                 \* "clearsky" | "scaler"

csVars == <<lats, lons, g0, clearsky, X, op, arg, argMin, argInplace, ret,
            outcome, ghiCalls, orig, fed>>
rsVars == <<feature_range, saturation_fraction, robust_data_min,
            robust_data_max, fitted, data_min_, data_max_, n_samples_seen_,
            scale_, min_, batches, sop, sarg, sret, soutcome>>
vars == <<csVars, rsVars, focus>>

---------------------------------------------------------------------------
(* Floating point values as exact rationals.                               *)

Abs(n) == IF n < 0 THEN -n ELSE n

Sgn(n) == IF n < 0 THEN -1 ELSE IF n > 0 THEN 1 ELSE 0

RECURSIVE GCD(_, _)
GCD(a, b) == IF b = 0 THEN a ELSE GCD(b, a % b)

\* numpy.nan
NaN == <<0, 0>>

\* n/d in lowest terms; x/0 is +Inf, -Inf or NaN (0/0) as in IEEE arithmetic.
Norm(n, d) ==
    IF d = 0 THEN <<Sgn(n), 0>>
    ELSE LET g == GCD(Abs(n), Abs(d))
         IN  <<(Sgn(d) * n) \div g, Abs(d) \div g>>

Q(n) == <<n, 1>>

IsNaN(a) == a = NaN

IsFinite(a) == a[2] # 0

Add(a, b) ==
    IF a[2] = 0 /\ b[2] = 0 THEN (IF a = b THEN a ELSE NaN)
    ELSE Norm(a[1] * b[2] + b[1] * a[2], a[2] * b[2])

Neg(a) == <<-a[1], a[2]>>

Sub(a, b) == Add(a, Neg(b))

Mul(a, b) == Norm(a[1] * b[1], a[2] * b[2])

Div(a, b) == Norm(a[1] * b[2], a[2] * b[1])

\* a < b ; FALSE whenever an operand is NaN.
Less(a, b) ==
    /\ ~IsNaN(a) /\ ~IsNaN(b) /\ a # b
    /\ IF a[2] = 0 \/ b[2] = 0
       THEN (IF a[2] = 0 THEN a[1] < 0 ELSE b[1] > 0)
       ELSE a[1] * b[2] < b[1] * a[2]

\* a <= b ; FALSE whenever an operand is NaN.
Leq(a, b) == ~IsNaN(a) /\ ~IsNaN(b) /\ (a = b \/ Less(a, b))

---------------------------------------------------------------------------
(* Tables: a pandas.DataFrame is its row labels (the time index), its      *)
(* column labels and its cells, data[i][l] for row i and column l.         *)

\* Largest unfudged GHI the irradiance model returns in the model.
MaxGhi == 1

\* Timestamps.
Times == {1, 2}

\* Time indexes of the caller's tables.
Indexes == {<<1>>, <<2, 1>>}

\* Location sets <<latitudes, longitudes>> a ClearskyScalar is built with.
LocationSets == {<<<<55>>, <<-2>>>>, <<<<50, 59>>, <<-5, 1>>>>}

\* Column counts of the caller's tables.
ColumnCounts == {1, 2}

\* Fudge factors.
FudgeFactors == {-1, 0, 2}

\* min_ghi thresholds.
Thresholds == {0, 1}

\* Cell values of the caller's tables.
XVals == {NaN, Q(0), Q(3)}

EmptyTable == [index |-> <<>>, columns |-> <<>>, data |-> <<>>]

Tables ==
    UNION {UNION {{[index |-> ix,
                    columns |-> [c \in 1..n |-> c - 1],
                    data |-> d] :
                      d \in [1..Len(ix) -> [1..n -> XVals]]} :
                 n \in ColumnCounts} :
           ix \in Indexes}

\* X.shape[1]
NCols(T) == Len(T.columns)

\* Rows and columns of a table.
Rows(T) == 1..Len(T.index)
Cols(T) == 1..Len(T.columns)

\* The table with T's labels and the cells d.
WithData(T, d) == [index |-> T.index, columns |-> T.columns, data |-> d]

---------------------------------------------------------------------------
(* ClearskyScalar                                                          *)

\* haurwitz(spa_python(times, lats, lons)): the unfudged clear-sky GHI, a
\* pure function of timestamp and location.
RawGhi(cs, times) ==
    [i \in 1..Len(times) |-> [l \in 1..Len(lats) |-> Q(cs[times[i], l])]]

\* ClearskyScalar.haurwitz_ghi: the GHI plus the fudge factor.
haurwitz_ghi(times) ==
    LET raw == RawGhi(clearsky, times)
    IN  [i \in DOMAIN raw |-> [l \in DOMAIN raw[i] |-> Add(raw[i][l], Q(g0))]]

\* GHI[GHI==0] = np.nan
ZeroToNaN(GHI) ==
    [i \in DOMAIN GHI |->
        [l \in DOMAIN GHI[i] |-> IF GHI[i][l] = Q(0) THEN NaN ELSE GHI[i][l]]]

\* transform without the zero guard.
clearsky_transform_noguard(T) ==
    LET GHI == haurwitz_ghi(T.index)
    IN  WithData(T, [i \in Rows(T) |->
            [l \in Cols(T) |-> Div(T.data[i][l], GHI[i][l])]])

\* Body of ClearskyScalar.transform after the shape assertion: X/GHI with
\* the zeros of GHI replaced by NaN; the quotient keeps X's labels.
clearsky_transform(T) ==
    LET GHI == ZeroToNaN(haurwitz_ghi(T.index))
    IN  WithData(T, [i \in Rows(T) |->
            [l \in Cols(T) |-> Div(T.data[i][l], GHI[i][l])]])

\* inverse_transform multiplying by the unfudged GHI.
clearsky_inverse_transform_nofudge(T) ==
    LET GHI == RawGhi(clearsky, T.index)
    IN  WithData(T, [i \in Rows(T) |->
            [l \in Cols(T) |-> Mul(T.data[i][l], GHI[i][l])]])

\* Body of ClearskyScalar.inverse_transform after the assertion: X*GHI.
clearsky_inverse_transform(T) ==
    LET GHI == haurwitz_ghi(T.index)
    IN  WithData(T, [i \in Rows(T) |->
            [l \in Cols(T) |-> Mul(T.data[i][l], GHI[i][l])]])

\* filter_to_daylight comparing the fudged GHI with min_ghi alone.
filter_to_daylight_nofudge(T, min_ghi) ==
    LET GHI == haurwitz_ghi(T.index)
    IN  WithData(T, [i \in Rows(T) |->
            [l \in Cols(T) |->
                IF Less(Q(min_ghi), GHI[i][l]) THEN T.data[i][l] ELSE NaN]])

\* Body of filter_to_daylight after the assertion:
\* X.where(GHI > min_ghi + self.g0): cells where the condition is false
\* become NaN, the others and the labels are kept.
filter_to_daylight(T, min_ghi) ==
    LET GHI == haurwitz_ghi(T.index)
    IN  WithData(T, [i \in Rows(T) |->
            [l \in Cols(T) |->
                IF Less(Q(min_ghi + g0), GHI[i][l]) THEN T.data[i][l] ELSE NaN]])

\* The assertion passing every table with at most len(self.lats) columns.
ShapeOk_atmost(T) == NCols(T) <= Len(lats)

\* assert len(self.lats)==X.shape[1]
ShapeOk(T) == Len(lats) = NCols(T)

\* ClearskyScalar.__init__ and the caller's first table.
InitClearsky ==
    /\ \E loc \in LocationSets :
          /\ Len(loc[1]) = Len(loc[2])
          /\ lats = loc[1]
          /\ lons = loc[2]
    /\ g0 \in FudgeFactors
    /\ clearsky \in [Times \X (1..Len(lats)) -> 0..MaxGhi]
    /\ X \in Tables
    /\ op = "init"
    /\ arg = EmptyTable
    /\ argMin = 0
    /\ argInplace = FALSE
    /\ ret = EmptyTable
    /\ outcome = "none"
    /\ ghiCalls = FALSE
    /\ orig = EmptyTable
    /\ fed = FALSE

\* A call that fails its shape assertion: nothing but the call record changes.
Raise(name, m, b) ==
    /\ op' = name
    /\ arg' = X
    /\ argMin' = m
    /\ argInplace' = b
    /\ ret' = EmptyTable
    /\ outcome' = "AssertionError"
    /\ ghiCalls' = FALSE
    /\ UNCHANGED <<lats, lons, g0, clearsky, X, orig, fed>>

\* A call that returns the table R and leaves the caller's table alone.
Return(name, m, b, R) ==
    /\ op' = name
    /\ arg' = X
    /\ argMin' = m
    /\ argInplace' = b
    /\ ret' = R
    /\ outcome' = "table"
    /\ ghiCalls' = TRUE
    /\ UNCHANGED <<lats, lons, g0, clearsky, X, orig, fed>>

\* ghi_scalar.transform(X)
Transform ==
    /\ focus = "clearsky"
    /\ IF ShapeOk(X)
       THEN Return("transform", 0, FALSE, clearsky_transform(X))
       ELSE Raise("transform", 0, FALSE)
    /\ UNCHANGED <<rsVars, focus>>

\* ghi_scalar.inverse_transform(X)
InverseTransform ==
    /\ focus = "clearsky"
    /\ IF ShapeOk(X)
       THEN Return("inverse_transform", 0, FALSE, clearsky_inverse_transform(X))
       ELSE Raise("inverse_transform", 0, FALSE)
    /\ UNCHANGED <<rsVars, focus>>

\* ghi_scalar.filter_to_daylight(X, min_ghi, inplace): with inplace=True
\* DataFrame.where writes into X and returns None.
FilterToDaylight ==
    /\ focus = "clearsky"
    /\ \E m \in Thresholds, b \in BOOLEAN :
          IF ~ShapeOk(X)
          THEN Raise("filter_to_daylight", m, b)
          ELSE IF b
          THEN /\ op' = "filter_to_daylight"
               /\ arg' = X
               /\ argMin' = m
               /\ argInplace' = TRUE
               /\ X' = filter_to_daylight(X, m)
               /\ ret' = EmptyTable
               /\ outcome' = "None"
               /\ ghiCalls' = TRUE
               /\ fed' = FALSE
               /\ UNCHANGED <<lats, lons, g0, clearsky, orig>>
          ELSE Return("filter_to_daylight", m, FALSE, filter_to_daylight(X, m))
    /\ UNCHANGED <<rsVars, focus>>

\* The caller feeds the table returned by transform into its next call
\* (once per table, so that quotients of quotients do not grow for ever).
FeedBack ==
    /\ focus = "clearsky"
    /\ op = "transform"
    /\ outcome = "table"
    /\ orig = EmptyTable
    /\ X' = ret
    /\ orig' = arg
    /\ fed' = TRUE
    /\ UNCHANGED <<lats, lons, g0, clearsky, op, arg, argMin, argInplace,
                   ret, outcome, ghiCalls>>
    /\ UNCHANGED <<rsVars, focus>>

---------------------------------------------------------------------------
(* RobustMinMaxScaler, followed on one feature column: percentiles, clip   *)
(* bounds and min-max statistics are all computed per column (axis=0 for   *)
(* the percentiles, axis=1 alignment of the bounds in clip), so a table is *)
(* a sequence of cells of that column, one per row.                        *)

\* Most partial_fit calls between two resets.
MaxBatches == 2

\* feature_range values: (0, 1) the default, and (-1, 1).
FeatureRanges == {<<Q(0), Q(1)>>, <<Q(-1), Q(1)>>}

\* saturation_fraction values: 0, the default 0.01, and 1.
SatFractions == {Q(0), <<1, 100>>, Q(1)}

\* Cells of a training batch.
TrainVals == {NaN, Q(0), Q(2)}

\* Training batches (the feature column of each), two rows each.
Batches == [1..2 -> TrainVals]

\* Columns passed to transform and inverse_transform.
Inputs == {<<v>> : v \in {NaN} \cup {Q(n) : n \in -1..3}}

\* The non-NaN cells of a column, in row order.
RECURSIVE DropNaN(_)
DropNaN(col) ==
    IF col = <<>> THEN <<>>
    ELSE IF IsNaN(Head(col)) THEN DropNaN(Tail(col))
    ELSE <<Head(col)>> \o DropNaN(Tail(col))

\* v inserted into the ascending sequence s.
RECURSIVE Insert(_, _)
Insert(v, s) ==
    IF s = <<>> THEN <<v>>
    ELSE IF Leq(v, Head(s)) THEN <<v>> \o s
    ELSE <<Head(s)>> \o Insert(v, Tail(s))

RECURSIVE Sort(_)
Sort(s) == IF s = <<>> THEN <<>> ELSE Insert(Head(s), Sort(Tail(s)))

\* np.nanpercentile(col, 100*q) for q = qn/qd in [0, 1]: NaNs are dropped,
\* the rest is sorted and interpolated linearly at position q*(n-1); NaN
\* when nothing is left.
nanpercentile(col, q) ==
    LET a == Sort(DropNaN(col))
        n == Len(a)
        num == q[1] * (n - 1)
        k == num \div q[2]
        frac == Norm(num % q[2], q[2])
    IN  IF n = 0 THEN NaN
        ELSE IF k + 1 >= n THEN a[n]
        ELSE Add(a[k + 1], Mul(frac, Sub(a[k + 2], a[k + 1])))

\* np.nanmin / np.nanmax of a column: NaN when every cell is NaN.
nanmin(col) == LET a == Sort(DropNaN(col)) IN IF a = <<>> THEN NaN ELSE a[1]
nanmax(col) == LET a == Sort(DropNaN(col)) IN IF a = <<>> THEN NaN ELSE a[Len(a)]

\* np.minimum / np.maximum: NaN when either operand is NaN.
minimum(a, b) == IF IsNaN(a) \/ IsNaN(b) THEN NaN ELSE IF Less(b, a) THEN b ELSE a
maximum(a, b) == IF IsNaN(a) \/ IsNaN(b) THEN NaN ELSE IF Less(a, b) THEN b ELSE a

\* A clip that replaces a missing cell by the lower bound.
clip_fillnan(x, lower, upper) ==
    IF IsNaN(x) THEN lower
    ELSE LET y == IF Less(x, lower) THEN lower ELSE x
         IN  IF Less(upper, y) THEN upper ELSE y

\* No clipping at all.
clip_none(x, lower, upper) == x

\* One cell of X.clip(lower, upper, axis=1): the lower bound is applied,
\* then the upper one; a missing cell stays missing and a missing bound
\* does not clip.
clip(x, lower, upper) ==
    LET y == IF Less(x, lower) THEN lower ELSE x
    IN  IF Less(upper, y) THEN upper ELSE y

ClipColumn(col, lower, upper) ==
    [i \in DOMAIN col |-> clip(col[i], lower, upper)]

\* The range used as it is, zero or not.
handle_zeros_in_scale_none(r) == r

\* sklearn's _handle_zeros_in_scale: a zero range is replaced by 1.
handle_zeros_in_scale(r) == IF r = Q(0) THEN Q(1) ELSE r

\* percentile_min and percentile_max, as fractions.
percentile_min == saturation_fraction
percentile_max == Sub(Q(1), saturation_fraction)

\* check_is_fitted(self) skipped.
check_is_fitted_skipped == TRUE

\* check_is_fitted(self): some attribute with a trailing underscore exists.
check_is_fitted == fitted

\* The scaler's current attributes.
Self ==
    [robust_data_min |-> robust_data_min,
     robust_data_max |-> robust_data_max,
     data_min_ |-> data_min_,
     data_max_ |-> data_max_,
     n_samples_seen_ |-> n_samples_seen_,
     scale_ |-> scale_,
     min_ |-> min_]

\* MinMaxScaler.transform: X * scale_ + min_.
minmax_transform(self, col) ==
    [i \in DOMAIN col |-> Add(Mul(col[i], self.scale_), self.min_)]

\* RobustMinMaxScaler.transform after check_is_fitted, on the attributes
\* self: clip to the stored percentile bounds, then MinMaxScaler.transform.
transform_with(self, col) ==
    minmax_transform(self,
        ClipColumn(col, self.robust_data_min, self.robust_data_max))

robust_transform(col) == transform_with(Self, col)

\* MinMaxScaler.inverse_transform: (X - min_) / scale_.
robust_inverse_transform(col) ==
    [i \in DOMAIN col |-> Div(Sub(col[i], min_), scale_)]

\* RobustMinMaxScaler.__init__
InitScaler ==
    /\ feature_range \in FeatureRanges
    /\ saturation_fraction \in SatFractions
    /\ robust_data_min = NaN
    /\ robust_data_max = NaN
    /\ fitted = FALSE
    /\ data_min_ = NaN
    /\ data_max_ = NaN
    /\ n_samples_seen_ = 0
    /\ scale_ = NaN
    /\ min_ = NaN
    /\ batches = <<>>
    /\ sop = "init"
    /\ sarg = <<>>
    /\ sret = <<>>
    /\ soutcome = "none"

\* partial_fit that keeps the percentile bounds of the first batch.
partial_fit_keepbounds(first_pass, B) ==
    LET rmin == IF first_pass
                THEN nanpercentile(B, percentile_min) ELSE robust_data_min
        rmax == IF first_pass
                THEN nanpercentile(B, percentile_max) ELSE robust_data_max
        Xr == ClipColumn(B, rmin, rmax)
        dmin == IF first_pass THEN nanmin(Xr) ELSE minimum(data_min_, nanmin(Xr))
        dmax == IF first_pass THEN nanmax(Xr) ELSE maximum(data_max_, nanmax(Xr))
        sc == Div(Sub(feature_range[2], feature_range[1]),
                  handle_zeros_in_scale(Sub(dmax, dmin)))
    IN  [robust_data_min |-> rmin,
         robust_data_max |-> rmax,
         data_min_ |-> dmin,
         data_max_ |-> dmax,
         n_samples_seen_ |-> (IF first_pass THEN 0 ELSE n_samples_seen_) + Len(B),
         scale_ |-> sc,
         min_ |-> Sub(feature_range[1], Mul(dmin, sc))]

\* The attributes set by RobustMinMaxScaler.partial_fit and, on the clipped
\* batch, by MinMaxScaler.partial_fit; first_pass is
\* "not hasattr(self, 'n_samples_seen_')".
partial_fit(first_pass, B) ==
    LET rmin == nanpercentile(B, percentile_min)
        rmax == nanpercentile(B, percentile_max)
        Xr == ClipColumn(B, rmin, rmax)
        dmin == IF first_pass THEN nanmin(Xr) ELSE minimum(data_min_, nanmin(Xr))
        dmax == IF first_pass THEN nanmax(Xr) ELSE maximum(data_max_, nanmax(Xr))
        sc == Div(Sub(feature_range[2], feature_range[1]),
                  handle_zeros_in_scale(Sub(dmax, dmin)))
    IN  [robust_data_min |-> rmin,
         robust_data_max |-> rmax,
         data_min_ |-> dmin,
         data_max_ |-> dmax,
         n_samples_seen_ |-> (IF first_pass THEN 0 ELSE n_samples_seen_) + Len(B),
         scale_ |-> sc,
         min_ |-> Sub(feature_range[1], Mul(dmin, sc))]

\* The attributes r become the scaler's fitted attributes.
SetFitted(r) ==
    /\ robust_data_min' = r.robust_data_min
    /\ robust_data_max' = r.robust_data_max
    /\ data_min_' = r.data_min_
    /\ data_max_' = r.data_max_
    /\ n_samples_seen_' = r.n_samples_seen_
    /\ scale_' = r.scale_
    /\ min_' = r.min_
    /\ fitted' = TRUE

\* scaler.partial_fit(B)
PartialFit ==
    /\ focus = "scaler"
    /\ Len(batches) < MaxBatches
    /\ \E B \in Batches :
          /\ SetFitted(partial_fit(~fitted, B))
          /\ batches' = Append(batches, B)
          /\ sop' = "partial_fit"
          /\ sarg' = B
    /\ sret' = <<>>
    /\ soutcome' = "self"
    /\ UNCHANGED <<feature_range, saturation_fraction, csVars, focus>>

\* scaler.fit(B): MinMaxScaler.fit resets the fitted attributes and calls
\* the overridden partial_fit.
Fit ==
    /\ focus = "scaler"
    /\ \E B \in Batches :
          /\ SetFitted(partial_fit(TRUE, B))
          /\ batches' = <<B>>
          /\ sop' = "fit"
          /\ sarg' = B
    /\ sret' = <<>>
    /\ soutcome' = "self"
    /\ UNCHANGED <<feature_range, saturation_fraction, csVars, focus>>

\* scaler.fit_transform(B): self.fit(B), then self.transform(B) on the
\* freshly fitted attributes.
FitTransform ==
    /\ focus = "scaler"
    /\ \E B \in Batches :
          LET r == partial_fit(TRUE, B)
          IN  /\ SetFitted(r)
              /\ batches' = <<B>>
              /\ sop' = "fit_transform"
              /\ sarg' = B
              /\ sret' = transform_with(r, B)
    /\ soutcome' = "column"
    /\ UNCHANGED <<feature_range, saturation_fraction, csVars, focus>>

\* scaler.transform(col)
ScalerTransform ==
    /\ focus = "scaler"
    /\ \E col \in Inputs :
          /\ sop' = "transform"
          /\ sarg' = col
          /\ IF check_is_fitted
             THEN sret' = robust_transform(col) /\ soutcome' = "column"
             ELSE sret' = <<>> /\ soutcome' = "NotFittedError"
    /\ UNCHANGED <<feature_range, saturation_fraction, robust_data_min,
                   robust_data_max, fitted, data_min_, data_max_,
                   n_samples_seen_, scale_, min_, batches, csVars, focus>>

\* scaler.inverse_transform(col): MinMaxScaler.inverse_transform checks
\* that the scaler is fitted.
ScalerInverseTransform ==
    /\ focus = "scaler"
    /\ \E col \in Inputs :
          /\ sop' = "inverse_transform"
          /\ sarg' = col
          /\ IF check_is_fitted
             THEN sret' = robust_inverse_transform(col) /\ soutcome' = "column"
             ELSE sret' = <<>> /\ soutcome' = "NotFittedError"
    /\ UNCHANGED <<feature_range, saturation_fraction, robust_data_min,
                   robust_data_max, fitted, data_min_, data_max_,
                   n_samples_seen_, scale_, min_, batches, csVars, focus>>

---------------------------------------------------------------------------
(* Specifications.  The two objects share no state, so a run exercises one *)
(* of them and leaves the other as constructed.                            *)

IdleClearsky ==
    /\ lats = <<55>>
    /\ lons = <<-2>>
    /\ g0 = 0
    /\ clearsky = [p \in Times \X {1} |-> 0]
    /\ X = [index |-> <<1>>, columns |-> <<0>>, data |-> <<<<Q(0)>>>>]
    /\ op = "init"
    /\ arg = EmptyTable
    /\ argMin = 0
    /\ argInplace = FALSE
    /\ ret = EmptyTable
    /\ outcome = "none"
    /\ ghiCalls = FALSE
    /\ orig = EmptyTable
    /\ fed = FALSE

IdleScaler ==
    /\ InitScaler
    /\ feature_range = <<Q(0), Q(1)>>
    /\ saturation_fraction = <<1, 100>>

InitC == focus = "clearsky" /\ InitClearsky /\ IdleScaler

InitS == focus = "scaler" /\ IdleClearsky /\ InitScaler

Init == InitC \/ InitS

NextClearsky ==
    \/ Transform
    \/ InverseTransform
    \/ FilterToDaylight
    \/ FeedBack

NextScaler ==
    \/ Fit
    \/ PartialFit
    \/ FitTransform
    \/ ScalerTransform
    \/ ScalerInverseTransform

Next == NextClearsky \/ NextScaler

\* Both objects, one per run.
Spec == Init /\ [][Next]_vars

\* Runs that exercise the ClearskyScalar.
SpecClearsky == InitC /\ [][NextClearsky]_vars

\* Runs that exercise the RobustMinMaxScaler.
SpecScaler == InitS /\ [][NextScaler]_vars

---------------------------------------------------------------------------
(* Properties of the ClearskyScalar.                                       *)

\* The unfudged and the fudged GHI of the table passed to the last call.
RawOfArg == RawGhi(clearsky, arg.index)
GhiOfArg == haurwitz_ghi(arg.index)

SameLabels(S, T) == S.index = T.index /\ S.columns = T.columns

TransformReturned == op = "transform" /\ outcome = "table"

\* C1 as stated: every cell of transform(X) whose unfudged GHI is exactly 0
\* is NaN, for every g0 and whatever the cell of X.
C1_RawZeroIsNaN ==
    TransformReturned =>
        \A i \in Rows(arg), l \in Cols(arg) :
            RawOfArg[i][l] = Q(0) => IsNaN(ret.data[i][l])

\* C1 amended: every cell of transform(X) whose fudged GHI (unfudged GHI
\* plus g0) is exactly 0 is NaN whatever the cell of X; with g0 = 0 these
\* are the cells whose unfudged GHI is 0, and with g0 # 0 a cell whose
\* unfudged GHI is 0 holds X[t,l] / g0.
C1_FudgedZeroIsNaN ==
    TransformReturned =>
        \A i \in Rows(arg), l \in Cols(arg) :
            /\ GhiOfArg[i][l] = Q(0) => IsNaN(ret.data[i][l])
            /\ (g0 = 0 /\ RawOfArg[i][l] = Q(0)) => IsNaN(ret.data[i][l])
            /\ (g0 # 0 /\ RawOfArg[i][l] = Q(0)) =>
                   ret.data[i][l] = Div(arg.data[i][l], Q(g0))

\* A transform with g0 # 0 of a table with a number in a cell whose fudged
\* GHI is 0 and a number in a cell whose unfudged GHI is 0.
C1_Witness ==
    /\ TransformReturned
    /\ g0 # 0
    /\ \E i \in Rows(arg), l \in Cols(arg) :
          /\ GhiOfArg[i][l] = Q(0)
          /\ arg.data[i][l] = Q(3)
          /\ IsNaN(ret.data[i][l])
    /\ \E i \in Rows(arg), l \in Cols(arg) :
          /\ RawOfArg[i][l] = Q(0)
          /\ arg.data[i][l] = Q(3)
          /\ ret.data[i][l] = Div(Q(3), Q(g0))

\* The table filter_to_daylight leaves the caller with: the returned one,
\* or with inplace=True the caller's own.
Filtered == IF argInplace THEN X ELSE ret

FilterReturned ==
    op = "filter_to_daylight" /\ outcome \in {"table", "None"}

C3_RoundTrip ==
    (op = "inverse_transform" /\ outcome = "table" /\ fed) =>
        /\ SameLabels(ret, orig)
        /\ \A i \in Rows(orig), l \in Cols(orig) :
              (Less(Q(0), haurwitz_ghi(orig.index)[i][l])
                  /\ ~IsNaN(orig.data[i][l]))
              => ret.data[i][l] = orig.data[i][l]

\* A round trip with g0 # 0 through a cell that holds 3 and whose quotient
\* is not 3.
C3_Witness ==
    /\ op = "inverse_transform" /\ outcome = "table" /\ fed
    /\ g0 # 0
    /\ \E i \in Rows(orig), l \in Cols(orig) :
          /\ Less(Q(0), haurwitz_ghi(orig.index)[i][l])
          /\ orig.data[i][l] = Q(3)
          /\ arg.data[i][l] # Q(3)
          /\ ret.data[i][l] = Q(3)

\* C6: a call of transform, inverse_transform or filter_to_daylight with a
\* table whose column count differs from the number of locations fails with
\* the assertion before any GHI is computed, returns no table and leaves
\* the caller's table and lats, lons and g0 unchanged.
C6_ShapeCheck ==
    [][(focus = "clearsky" /\ NCols(X) # Len(lats)) =>
          /\ op' \in {"transform", "inverse_transform", "filter_to_daylight"}
          /\ arg' = X
          /\ outcome' = "AssertionError"
          /\ ~ghiCalls'
          /\ ret' = EmptyTable
          /\ X' = X
          /\ lats' = lats /\ lons' = lons /\ g0' = g0]_vars

\* An in-place filter_to_daylight of a table with the wrong column count.
C6_Witness ==
    /\ op = "filter_to_daylight"
    /\ argInplace
    /\ NCols(arg) # Len(lats)
    /\ outcome = "AssertionError"
    /\ X = arg

---------------------------------------------------------------------------
(* Properties of the RobustMinMaxScaler.                                   *)

lo == feature_range[1]
hi == feature_range[2]

InRange(v) == Leq(lo, v) /\ Leq(v, hi)

\* No cell of the batch holds a number.
AllNaN(B) == DropNaN(B) = <<>>

\* transform, alone or as the second half of fit_transform, has returned.
Transformed ==
    sop \in {"transform", "fit_transform"} /\ soutcome = "column"

\* C4 as stated: after fit(D), transform maps every non-NaN x into
\* [lo, hi], every x <= robust_min exactly to lo and every x >= robust_max
\* exactly to hi.
C4_ClampToBounds ==
    (Transformed /\ Len(batches) = 1) =>
        \A i \in DOMAIN sarg :
            ~IsNaN(sarg[i]) =>
                /\ InRange(sret[i])
                /\ Leq(sarg[i], robust_data_min) => sret[i] = lo
                /\ Leq(robust_data_max, sarg[i]) => sret[i] = hi

\* C4 amended: after fit(D) on data with at least one number in feature j,
\* transform maps every non-NaN x into [lo, hi]; when
\* robust_min[j] < robust_max[j] every x <= robust_min[j] maps exactly to lo
\* and every x >= robust_max[j] exactly to hi, and otherwise (a feature
\* whose clipped training data has zero range) every x maps to lo.
C4_ClampToBoundsAmended ==
    (Transformed /\ Len(batches) = 1 /\ ~AllNaN(batches[1])) =>
        \A i \in DOMAIN sarg :
            ~IsNaN(sarg[i]) =>
                /\ InRange(sret[i])
                /\ IF Less(robust_data_min, robust_data_max)
                   THEN /\ Leq(sarg[i], robust_data_min) => sret[i] = lo
                        /\ Leq(robust_data_max, sarg[i]) => sret[i] = hi
                   ELSE sret[i] = lo

\* After fit on a batch with two different numbers, an outlier above
\* robust_max has been mapped to hi.
C4_Witness ==
    /\ sop = "transform" /\ soutcome = "column"
    /\ Len(batches) = 1
    /\ Less(robust_data_min, robust_data_max)
    /\ Less(robust_data_max, sarg[1])
    /\ sret[1] = hi

\* C5: transform and inverse_transform fail with the not-fitted error,
\* return nothing and leave the scaler unfitted when no fit, partial_fit or
\* fit_transform has been made, and do not raise it once one has.
C5_NotFitted ==
    sop \in {"transform", "inverse_transform"} =>
        IF batches = <<>>
        THEN soutcome = "NotFittedError" /\ sret = <<>> /\ ~fitted
        ELSE soutcome = "column" /\ Len(sret) = Len(sarg)

\* inverse_transform called on a scaler that was never fitted.
C5_Witness ==
    /\ sop = "inverse_transform"
    /\ batches = <<>>
    /\ soutcome = "NotFittedError"

\* The plain MinMaxScaler fitted on the same batches, unclipped.
RECURSIVE PlainMin(_)
PlainMin(bs) ==
    IF Len(bs) = 1 THEN nanmin(bs[1])
    ELSE minimum(PlainMin(SubSeq(bs, 1, Len(bs) - 1)), nanmin(bs[Len(bs)]))

RECURSIVE PlainMax(_)
PlainMax(bs) ==
    IF Len(bs) = 1 THEN nanmax(bs[1])
    ELSE maximum(PlainMax(SubSeq(bs, 1, Len(bs) - 1)), nanmax(bs[Len(bs)]))

PlainScale(bs) ==
    Div(Sub(hi, lo), handle_zeros_in_scale(Sub(PlainMax(bs), PlainMin(bs))))

PlainOffset(bs) == Sub(lo, Mul(PlainMin(bs), PlainScale(bs)))

PlainTransform(bs, col) ==
    [i \in DOMAIN col |-> Add(Mul(col[i], PlainScale(bs)), PlainOffset(bs))]

PlainInverseTransform(bs, col) ==
    [i \in DOMAIN col |-> Div(Sub(col[i], PlainOffset(bs)), PlainScale(bs))]

\* C8: with saturation_fraction = 0 transform and inverse_transform give
\* what the plain min-max scaler fitted on the same data gives, also for
\* inputs outside the range of the training data.
C8_PlainEquivalence ==
    (saturation_fraction = Q(0) /\ soutcome = "column") =>
        /\ sop \in {"transform", "fit_transform"} =>
               sret = PlainTransform(batches, sarg)
        /\ sop = "inverse_transform" =>
               sret = PlainInverseTransform(batches, sarg)

\* The cells of all batches, each batch clipped to its own percentiles.
RECURSIVE ClippedAll(_)
ClippedAll(bs) ==
    IF bs = <<>> THEN <<>>
    ELSE ClipColumn(Head(bs), nanpercentile(Head(bs), percentile_min),
                    nanpercentile(Head(bs), percentile_max))
         \o ClippedAll(Tail(bs))

SomeAllNaN(bs) == \E k \in DOMAIN bs : AllNaN(bs[k])

RECURSIVE TotalRows(_)
TotalRows(bs) == IF bs = <<>> THEN 0 ELSE Len(Head(bs)) + TotalRows(Tail(bs))

\* C9: after partial_fit calls B1..Bn, robust_min and robust_max are the
\* saturation_fraction and (1 - saturation_fraction) percentiles of Bn
\* alone, and data_min_ and data_max_ are the least and the greatest cell of
\* all the batches, each clipped to its own percentile bounds (NaN once a
\* batch without any number has been accumulated).
C9_PartialFitBatches ==
    batches # <<>> =>
        LET Bn == batches[Len(batches)]
        IN  /\ fitted
            /\ robust_data_min = nanpercentile(Bn, percentile_min)
            /\ robust_data_max = nanpercentile(Bn, percentile_max)
            /\ data_min_ = IF SomeAllNaN(batches) THEN NaN
                           ELSE nanmin(ClippedAll(batches))
            /\ data_max_ = IF SomeAllNaN(batches) THEN NaN
                           ELSE nanmax(ClippedAll(batches))
            /\ n_samples_seen_ = TotalRows(batches)

\* Two partial_fit calls with the default saturation_fraction whose second
\* batch has other percentiles than the first and does not reach the
\* accumulated minimum.
C9_Witness ==
    /\ sop = "partial_fit"
    /\ Len(batches) = 2
    /\ saturation_fraction = <<1, 100>>
    /\ robust_data_min # nanpercentile(batches[1], percentile_min)
    /\ robust_data_max # nanpercentile(batches[1], percentile_max)
    /\ Less(data_min_, robust_data_min)
    /\ Less(robust_data_min, robust_data_max)

\* C10 as stated: after any non-empty sequence of fit and partial_fit
\* calls, transform maps every non-NaN x into [lo, hi].
C10_OutputInRange ==
    (Transformed /\ batches # <<>>) =>
        \A i \in DOMAIN sarg : ~IsNaN(sarg[i]) => InRange(sret[i])

\* C10 amended: after any non-empty sequence of fit and partial_fit calls
\* in which every batch since the last fit has at least one number in the
\* feature, transform maps every non-NaN x into [lo, hi].
C10_OutputInRangeAmended ==
    (Transformed /\ batches # <<>> /\ ~SomeAllNaN(batches)) =>
        \A i \in DOMAIN sarg : ~IsNaN(sarg[i]) => InRange(sret[i])

\* The clip bounds come from the second batch, the min-max statistics from
\* both, and a number has been mapped strictly inside the range.
C10_Witness ==
    /\ sop = "transform" /\ soutcome = "column"
    /\ Len(batches) = 2
    /\ ~SomeAllNaN(batches)
    /\ <<robust_data_min, robust_data_max>> # <<data_min_, data_max_>>
    /\ ~IsNaN(sarg[1])
    /\ Less(lo, sret[1]) /\ Less(sret[1], hi)

---------------------------------------------------------------------------
(* Both transformers.                                                      *)

\* C7: each of ClearskyScalar.transform, ClearskyScalar.inverse_transform,
\* RobustMinMaxScaler.transform and RobustMinMaxScaler.inverse_transform
\* returns NaN in every cell that is NaN in its input, at the same row and
\* column.
C7_NaNPreserved ==
    /\ (op \in {"transform", "inverse_transform"} /\ outcome = "table") =>
          /\ SameLabels(ret, arg)
          /\ \A i \in Rows(arg), l \in Cols(arg) :
                IsNaN(arg.data[i][l]) => IsNaN(ret.data[i][l])
    /\ (sop \in {"transform", "inverse_transform", "fit_transform"}
          /\ soutcome = "column") =>
          /\ DOMAIN sret = DOMAIN sarg
          /\ \A i \in DOMAIN sarg : IsNaN(sarg[i]) => IsNaN(sret[i])

\* A fitted scaler with finite attributes has transformed a missing value.
C7_Witness ==
    /\ sop = "transform" /\ soutcome = "column"
    /\ IsFinite(scale_) /\ IsFinite(min_)
    /\ IsFinite(robust_data_min) /\ IsFinite(robust_data_max)
    /\ IsNaN(sarg[1])
    /\ IsNaN(sret[1])

===========================================================================
